---------------------------- MODULE Spec2Model ----------------------------
(***************************************************************************)
(* Model of src/database.rs of the OCSP responder: the Database trait      *)
(* (check_cert, create_tables_if_needed) as implemented by MySqlDatabase   *)
(* and PostgresDatabase, run by concurrent callers against one store.      *)
(*                                                                         *)
(* Option<T> is modelled as a sequence of length 0 (None) or 1 (Some).     *)
(* Every round trip to the database server is one atomic step.             *)
(***************************************************************************)
EXTENDS Integers, Sequences, FiniteSets, TLC

\* ------------------------------------------------------------------ bounds
MaxCalls == 1       \* calls each caller may start
MaxFaults == 1      \* connection / I/O failures the environment may inject
MaxClock == 1       \* wall-clock ticks
MaxWrites == 1      \* row writes by the certificate authority

Callers == {"c1", "c2"}
Serials == {"ABC123"}

None == << >>
Some(x) == << x >>

\* ------------------------------------------------------- protocol values
\* ocsp::common::asn1::GeneralizedTime: year, month, day, hour, min, sec.
GT(y, mo, d, h, mi, s) ==
    [year |-> y, month |-> mo, day |-> d, hour |-> h, min |-> mi, sec |-> s]

IsLeap(y) == (y % 4 = 0 /\ y % 100 # 0) \/ y % 400 = 0

DaysInMonth(y, mo) ==
    IF mo \in {4, 6, 9, 11} THEN 30
    ELSE IF mo = 2 THEN (IF IsLeap(y) THEN 29 ELSE 28)
    ELSE 31

\* GeneralizedTime::new: Ok(fields as given) for a calendar date and a time
\* of day, Err otherwise.  The Result is Some(time) / None.
GeneralizedTime_new(y, mo, d, h, mi, s) ==
    IF /\ mo \in 1..12
       /\ d >= 1 /\ d <= DaysInMonth(y, mo)
       /\ h \in 0..23 /\ mi \in 0..59 /\ s \in 0..59
    THEN Some(GT(y, mo, d, h, mi, s))
    ELSE None

\* GeneralizedTime::now() read when the wall clock shows c.
GeneralizedTime_now(c) == GT(2026, 11, 4, 0, 0, c)

\* OcspCertStatus::new(code, revoked_info)
OcspCertStatus(code, info) == [code |-> code, revoked_info |-> info]

\* RevokedInfo::new(time, reason)
RevokedInfo(time, reason) == [revocation_time |-> time, revocation_reason |-> reason]

\* ----------------------------------------------------------- stored rows
\* mysql::Value as read from the revocation_time column: Value::Date with
\* its seven fields, or another variant (kind "Bytes").
DateValue(y, mo, d, h, mi, s, us) ==
    [kind |-> "Date", year |-> y, month |-> mo, day |-> d,
     hour |-> h, min |-> mi, sec |-> s, micros |-> us]

BytesValue == [kind |-> "Bytes", year |-> 0, month |-> 0, day |-> 0,
               hour |-> 0, min |-> 0, sec |-> 0, micros |-> 0]

WellFormedDates ==
    { DateValue(2023, 5, 1, 12, 0, 0, 0),
      DateValue(2024, 2, 29, 23, 59, 59, 999999),
      DateValue(1970, 1, 1, 0, 0, 0, 1) }

MalformedDates ==
    { DateValue(0, 0, 0, 0, 0, 0, 0),
      DateValue(2023, 2, 29, 10, 0, 0, 0),
      DateValue(2023, 4, 31, 10, 0, 0, 0),
      DateValue(2023, 13, 1, 10, 0, 0, 0),
      DateValue(2023, 5, 1, 24, 0, 0, 0),
      DateValue(2023, 5, 1, 12, 60, 0, 0),
      DateValue(2023, 5, 1, 12, 0, 60, 0) }

NamedReasons ==
    { "key_compromise", "ca_compromise", "affiliation_changed", "superseded",
      "cessation_of_operation", "certificate_hold", "privilege_withdrawn",
      "aa_compromise" }

OtherReasons ==
    { "", "unspecified", "Key_Compromise", "KEY_COMPROMISE", "Superseded",
      "certificate hold", "removeFromCRL" }

Statuses == { "Valid", "Revoked", "revoked", "Expired" }

\* Certinfo (struct.rs) / the three selected columns of a row.
Certinfo(status, time, reason) ==
    [status |-> status, revocation_time |-> time, revocation_reason |-> reason]

\* What each backend's column can hand to the client: a TIMESTAMP read as
\* Option<chrono::NaiveDateTime> is always a calendar date; a mysql::Value
\* is whatever the server sent.  A row is taken as already read into the Rust
\* types the code asks for (String, Option<String>, Option<NaiveDateTime>):
\* whether row.get / exec_map accept the column's SQL type is decided by the
\* client libraries and is not part of this model.
TimesOf(b) ==
    IF b = "PostgreSQL"
    THEN {None} \cup { Some(v) : v \in WellFormedDates }
    ELSE {None} \cup { Some(v) : v \in WellFormedDates \cup MalformedDates \cup {BytesValue} }

ReasonsOf == {None} \cup { Some(r) : r \in NamedReasons \cup OtherReasons }

AllRows(b) ==
    { Certinfo(s, t, r) : s \in Statuses, t \in TimesOf(b), r \in ReasonsOf }

\* The rows the certificate authority writes while callers are running.
FewRows ==
    { Certinfo("Valid", None, None),
      Certinfo("Revoked", Some(DateValue(2023, 5, 1, 12, 0, 0, 0)), Some("key_compromise")) }

VARIABLES
    backend,        \* DatabaseType chosen by create_database
    create_table,   \* Config.create_table
    table,          \* the relation (list_certs / ocsp_list_certs) exists
    types,          \* enumerated types existing in the PostgreSQL catalog
    rows,           \* Serials -> Option<row>
    clock,          \* wall clock
    pc,             \* each caller's position
    op,             \* each caller's current call and its arguments
    fetched,        \* check_cert: the Vec the lookup returned (status / rows)
    time,           \* check_cert: GeneralizedTime::now() taken at line 100 / 245
    result,         \* the call's return value
    sessions,       \* connections the current call has opened
    queries,        \* lookup queries the current call has issued
    ddl,            \* schema statements the current call has issued
    failure,        \* what failed in the current call
    start,          \* the schema as it was when the current call began
    overlap,        \* another provisioning call ran during this one
    calls,          \* calls started by each caller
    provisioned,    \* provisioning calls completed so far
    created,        \* how many times each schema object was created
    faults,         \* failures injected so far
    writes          \* row writes so far

vars == << backend, create_table, table, types, rows, clock, pc, op, fetched,
           time, result, sessions, queries, ddl, failure, start, overlap,
           calls, provisioned, created, faults, writes >>

config == << backend, create_table >>
store == << table, types, rows >>

PgTypes == { "cert_status", "revocation_reason_enum" }

Ok(v) == [tag |-> "Ok", val |-> Some(v), err |-> ""]
OkUnit == [tag |-> "Ok", val |-> None, err |-> ""]
Err(e) == [tag |-> "Err", val |-> None, err |-> e]
Pending == [tag |-> "Pending", val |-> None, err |-> ""]

NoOp == [name |-> "none", certnum |-> "", revoked |-> FALSE]
NoStart == [table |-> FALSE, types |-> {}, provisioned |-> 0]


UnwrapOr(opt, default) == IF opt = None THEN default ELSE opt[1]

\* ------------------------------------------------ status resolution, MySQL
\* Lines 117-127: match motif.as_str() { ... }
MySql_motif(motif) ==
    CASE motif = "key_compromise" -> "OcspRevokeKeyCompromise"
      [] motif = "ca_compromise" -> "OcspRevokeCaCompromise"
      [] motif = "affiliation_changed" -> "OcspRevokeAffChanged"
      [] motif = "superseded" -> "OcspRevokeSuperseded"
      [] motif = "cessation_of_operation" -> "OcspRevokeCessOperation"
      [] motif = "certificate_hold" -> "OcspRevokeCertHold"
      [] motif = "privilege_withdrawn" -> "OcspRevokePrivWithdrawn"
      [] motif = "aa_compromise" -> "OcspRevokeAaCompromise"
      [] OTHER -> "OcspRevokeUnspecified"

\* MySql_timenew with the day and the month handed over in each other's place.
MySql_timenew_DayMonthSwapped(date, now) ==
    IF date # None /\ date[1].kind = "Date"
    THEN UnwrapOr(GeneralizedTime_new(date[1].year, date[1].day, date[1].month,
                                      date[1].hour, date[1].min, date[1].sec),
                  now)
    ELSE now

\* Lines 100-115: timenew = match date { Some(Value::Date(..)) =>
\* GeneralizedTime::new(..), _ => Ok(time) }; timenew.unwrap_or(time)
MySql_timenew(date, now) ==
    IF date # None /\ date[1].kind = "Date"
    THEN UnwrapOr(GeneralizedTime_new(date[1].year, date[1].month, date[1].day,
                                      date[1].hour, date[1].min, date[1].sec),
                  now)
    ELSE now

\* MySql_resolve stamping the missing-record sentinel with the current time.
MySql_resolve_AbsentNow(status, revoked, now) ==
    IF Len(status) = 0
    THEN IF ~revoked
         THEN Ok(OcspCertStatus("Unknown", None))
         ELSE Ok(OcspCertStatus("Revoked",
                  Some(RevokedInfo(now, Some("OcspRevokeCertHold")))))
    ELSE LET statut == status[1] IN
         IF statut.status = "Revoked"
         THEN Ok(OcspCertStatus("Revoked",
                  Some(RevokedInfo(MySql_timenew(statut.revocation_time, now),
                                   Some(MySql_motif(UnwrapOr(statut.revocation_reason, "")))))))
         ELSE Ok(OcspCertStatus("Good", None))

\* Lines 83-135: the decision taken from the Vec<Certinfo> the lookup returned.
\* GeneralizedTime::new(1970, 1, 1, 0, 0, 0).unwrap() takes the Ok value.
MySql_resolve(status, revoked, now) ==
    IF Len(status) = 0
    THEN IF ~revoked
         THEN Ok(OcspCertStatus("Unknown", None))
         ELSE Ok(OcspCertStatus("Revoked",
                  Some(RevokedInfo(GeneralizedTime_new(1970, 1, 1, 0, 0, 0)[1],
                                   Some("OcspRevokeCertHold")))))
    ELSE LET statut == status[1] IN
         IF statut.status = "Revoked"
         THEN Ok(OcspCertStatus("Revoked",
                  Some(RevokedInfo(MySql_timenew(statut.revocation_time, now),
                                   Some(MySql_motif(UnwrapOr(statut.revocation_reason, "")))))))
         ELSE Ok(OcspCertStatus("Good", None))

\* ------------------------------------------- status resolution, PostgreSQL
\* Postgres_motif matching the named reasons without regard to case.
Postgres_motif_IgnoreCase(motif) ==
    CASE motif \in {"key_compromise", "Key_Compromise", "KEY_COMPROMISE"} ->
             "OcspRevokeKeyCompromise"
      [] motif = "ca_compromise" -> "OcspRevokeCaCompromise"
      [] motif = "affiliation_changed" -> "OcspRevokeAffChanged"
      [] motif \in {"superseded", "Superseded"} -> "OcspRevokeSuperseded"
      [] motif = "cessation_of_operation" -> "OcspRevokeCessOperation"
      [] motif = "certificate_hold" -> "OcspRevokeCertHold"
      [] motif = "privilege_withdrawn" -> "OcspRevokePrivWithdrawn"
      [] motif = "aa_compromise" -> "OcspRevokeAaCompromise"
      [] OTHER -> "OcspRevokeUnspecified"

\* Lines 263-273: match motif.as_str() { ... }
Postgres_motif(motif) ==
    CASE motif = "key_compromise" -> "OcspRevokeKeyCompromise"
      [] motif = "ca_compromise" -> "OcspRevokeCaCompromise"
      [] motif = "affiliation_changed" -> "OcspRevokeAffChanged"
      [] motif = "superseded" -> "OcspRevokeSuperseded"
      [] motif = "cessation_of_operation" -> "OcspRevokeCessOperation"
      [] motif = "certificate_hold" -> "OcspRevokeCertHold"
      [] motif = "privilege_withdrawn" -> "OcspRevokePrivWithdrawn"
      [] motif = "aa_compromise" -> "OcspRevokeAaCompromise"
      [] OTHER -> "OcspRevokeUnspecified"

\* Postgres_time answering a null timestamp with the epoch instead of now.
Postgres_time_NullIsEpoch(revocation_time, now) ==
    IF revocation_time # None
    THEN LET rt == revocation_time[1] IN
         UnwrapOr(GeneralizedTime_new(rt.year, rt.month, rt.day, rt.hour, rt.min, rt.sec),
                  now)
    ELSE GT(1970, 1, 1, 0, 0, 0)

\* Lines 245-259: if let Some(rt) = revocation_time {
\* GeneralizedTime::new(rt.year(), .., rt.second()).unwrap_or(time) } else { time }
Postgres_time(revocation_time, now) ==
    IF revocation_time # None
    THEN LET rt == revocation_time[1] IN
         UnwrapOr(GeneralizedTime_new(rt.year, rt.month, rt.day, rt.hour, rt.min, rt.sec),
                  now)
    ELSE now

\* Postgres_resolve answering Good for "Valid" alone and Revoked for the rest.
Postgres_resolve_ValidOnly(rws, revoked, now) ==
    IF Len(rws) = 0
    THEN IF ~revoked
         THEN Ok(OcspCertStatus("Unknown", None))
         ELSE Ok(OcspCertStatus("Revoked",
                  Some(RevokedInfo(GeneralizedTime_new(1970, 1, 1, 0, 0, 0)[1],
                                   Some("OcspRevokeCertHold")))))
    ELSE LET row == rws[1] IN
         IF row.status # "Valid"
         THEN Ok(OcspCertStatus("Revoked",
                  Some(RevokedInfo(Postgres_time(row.revocation_time, now),
                                   Some(Postgres_motif(UnwrapOr(row.revocation_reason, "")))))))
         ELSE Ok(OcspCertStatus("Good", None))

\* Lines 226-282: the decision taken from the rows the lookup returned.
Postgres_resolve(rws, revoked, now) ==
    IF Len(rws) = 0
    THEN IF ~revoked
         THEN Ok(OcspCertStatus("Unknown", None))
         ELSE Ok(OcspCertStatus("Revoked",
                  Some(RevokedInfo(GeneralizedTime_new(1970, 1, 1, 0, 0, 0)[1],
                                   Some("OcspRevokeCertHold")))))
    ELSE LET row == rws[1] IN
         IF row.status = "Revoked"
         THEN Ok(OcspCertStatus("Revoked",
                  Some(RevokedInfo(Postgres_time(row.revocation_time, now),
                                   Some(Postgres_motif(UnwrapOr(row.revocation_reason, "")))))))
         ELSE Ok(OcspCertStatus("Good", None))

\* ------------------------------------------------------------ call frames
InProvisioning(q) == op[q].name = "create_tables_if_needed" /\ pc[q] # "done"

\* A caller enters a trait method: its frame is fresh.
Enter(p, name, certnum, revoked) ==
    /\ pc[p] = "idle"
    /\ calls[p] < MaxCalls
    /\ calls' = [calls EXCEPT ![p] = @ + 1]
    /\ op' = [op EXCEPT ![p] = [name |-> name, certnum |-> certnum, revoked |-> revoked]]
    /\ start' = [start EXCEPT ![p] =
                    [table |-> table, types |-> types, provisioned |-> provisioned]]
    /\ overlap' =
         IF name = "create_tables_if_needed"
         THEN [q \in Callers |->
                 IF q = p THEN \E r \in Callers \ {p} : InProvisioning(r)
                 ELSE overlap[q] \/ InProvisioning(q)]
         ELSE overlap

\* The method returns r; f names what failed ("none" when nothing did).
Leave(p, r, f) ==
    /\ pc' = [pc EXCEPT ![p] = "done"]
    /\ result' = [result EXCEPT ![p] = r]
    /\ failure' = [failure EXCEPT ![p] = f]

\* The method goes on to its next database round trip.
Goto(p, next) ==
    /\ pc' = [pc EXCEPT ![p] = next]
    /\ UNCHANGED << result, failure >>

\* create_tables_if_needed returns r: one more provisioning call is complete.
Finish(p, r, f) == Leave(p, r, f) /\ provisioned' = provisioned + 1

\* create_tables_if_needed goes on to its next round trip.
Step(p, next) == Goto(p, next) /\ UNCHANGED provisioned

\* The environment breaks a connection attempt or a round trip.
Inject == faults < MaxFaults /\ faults' = faults + 1

\* ------------------------------------------------------ MySQL: check_cert
\* Line 71: let mut conn = self.get_connection()?;
MySql_check_cert_connect(p) ==
    /\ backend = "MySQL"
    /\ \E certnum \in Serials, revoked \in BOOLEAN : Enter(p, "check_cert", certnum, revoked)
    /\ sessions' = [sessions EXCEPT ![p] = @ + 1]
    /\ \/ /\ Goto(p, "cc_query")
          /\ UNCHANGED faults
       \/ /\ Inject
          /\ Leave(p, Err("connect"), "connect")
    /\ UNCHANGED << config, store, clock, fetched, time, queries, ddl, provisioned,
                    created, writes >>

\* MySql_check_cert_query taking a failed lookup for an empty result.
MySql_check_cert_query_FailedIsEmpty(p) ==
    /\ backend = "MySQL"
    /\ pc[p] = "cc_query"
    /\ queries' = [queries EXCEPT ![p] = @ + 1]
    /\ LET status == IF table THEN rows[op[p].certnum] ELSE << >>
           now == GeneralizedTime_now(clock)
       IN /\ fetched' = [fetched EXCEPT ![p] = status]
          /\ time' = [time EXCEPT ![p] = Some(now)]
          /\ Leave(p, MySql_resolve(status, op[p].revoked, now),
                   IF table THEN "none" ELSE "query")
    /\ UNCHANGED << config, store, clock, op, sessions, ddl, start, overlap,
                    calls, provisioned, created, faults, writes >>

\* Lines 73-136: the lookup, then the decision.
MySql_check_cert_query(p) ==
    /\ backend = "MySQL"
    /\ pc[p] = "cc_query"
    /\ queries' = [queries EXCEPT ![p] = @ + 1]
    /\ \/ /\ Inject
          /\ Leave(p, Err("query"), "query")
          /\ UNCHANGED << fetched, time >>
       \/ /\ ~table
          /\ Leave(p, Err("query"), "query")
          /\ UNCHANGED << fetched, time, faults >>
       \/ /\ table
          /\ LET status == rows[op[p].certnum]
                 now == GeneralizedTime_now(clock)
             IN /\ fetched' = [fetched EXCEPT ![p] = status]
                /\ time' = [time EXCEPT ![p] = Some(now)]
                /\ Leave(p, MySql_resolve(status, op[p].revoked, now), "none")
          /\ UNCHANGED faults
    /\ UNCHANGED << config, store, clock, op, sessions, ddl, start, overlap,
                    calls, provisioned, created, writes >>

\* ------------------------------------------------- PostgreSQL: check_cert
\* Line 216: let client = self.get_client()?;
Postgres_check_cert_connect(p) ==
    /\ backend = "PostgreSQL"
    /\ \E certnum \in Serials, revoked \in BOOLEAN : Enter(p, "check_cert", certnum, revoked)
    /\ sessions' = [sessions EXCEPT ![p] = @ + 1]
    /\ \/ /\ Goto(p, "cc_query")
          /\ UNCHANGED faults
       \/ /\ Inject
          /\ Leave(p, Err("connect"), "connect")
    /\ UNCHANGED << config, store, clock, fetched, time, queries, ddl, provisioned,
                    created, writes >>

\* Lines 219-283: the lookup driven to completion by block_on, then the decision.
Postgres_check_cert_query(p) ==
    /\ backend = "PostgreSQL"
    /\ pc[p] = "cc_query"
    /\ queries' = [queries EXCEPT ![p] = @ + 1]
    /\ \/ /\ Inject
          /\ Leave(p, Err("query"), "query")
          /\ UNCHANGED << fetched, time >>
       \/ /\ ~table
          /\ Leave(p, Err("query"), "query")
          /\ UNCHANGED << fetched, time, faults >>
       \/ /\ table
          /\ LET rws == rows[op[p].certnum]
                 now == GeneralizedTime_now(clock)
             IN /\ fetched' = [fetched EXCEPT ![p] = rws]
                /\ time' = [time EXCEPT ![p] = Some(now)]
                /\ Leave(p, Postgres_resolve(rws, op[p].revoked, now), "none")
          /\ UNCHANGED faults
    /\ UNCHANGED << config, store, clock, op, sessions, ddl, start, overlap,
                    calls, provisioned, created, writes >>

\* --------------------------------------- MySQL: create_tables_if_needed
\* MySql_tables never reporting the relation.
MySql_tables_Unchecked == << >>

\* Lines 145-147: SHOW TABLES LIKE 'list_certs' mapped to the table names.
MySql_tables == IF table THEN << "list_certs" >> ELSE << >>

\* Lines 138-143: the configuration gate, then get_connection()?.
MySql_create_tables_begin(p) ==
    /\ backend = "MySQL"
    /\ Enter(p, "create_tables_if_needed", "", FALSE)
    /\ \/ /\ ~create_table
          /\ Finish(p, OkUnit, "none")
          /\ UNCHANGED << sessions, faults >>
       \/ /\ create_table
          /\ sessions' = [sessions EXCEPT ![p] = @ + 1]
          /\ Step(p, "pv_show")
          /\ UNCHANGED faults
       \/ /\ create_table
          /\ sessions' = [sessions EXCEPT ![p] = @ + 1]
          /\ Inject
          /\ Finish(p, Err("connect"), "connect")
    /\ UNCHANGED << config, store, clock, fetched, time, queries, ddl, created, writes >>

\* Lines 145-152: the existence check.
MySql_create_tables_show(p) ==
    /\ backend = "MySQL"
    /\ pc[p] = "pv_show"
    /\ queries' = [queries EXCEPT ![p] = @ + 1]
    /\ \/ /\ Inject
          /\ Finish(p, Err("query"), "query")
       \/ /\ Len(MySql_tables) # 0
          /\ Finish(p, OkUnit, "none")
          /\ UNCHANGED faults
       \/ /\ Len(MySql_tables) = 0
          /\ Step(p, "pv_create")
          /\ UNCHANGED faults
    /\ UNCHANGED << config, store, clock, op, fetched, time, sessions, ddl, start,
                    overlap, calls, created, writes >>

\* Lines 154-165: CREATE TABLE `list_certs`; the server refuses a second one.
MySql_create_tables_create(p) ==
    /\ backend = "MySQL"
    /\ pc[p] = "pv_create"
    /\ ddl' = [ddl EXCEPT ![p] = Append(@, "CREATE TABLE list_certs")]
    /\ \/ /\ Inject
          /\ Finish(p, Err("query"), "query")
          /\ UNCHANGED << table, created >>
       \/ /\ table
          /\ Finish(p, Err("exists"), "exists")
          /\ UNCHANGED << table, created, faults >>
       \/ /\ ~table
          /\ table' = TRUE
          /\ created' = [created EXCEPT !["table"] = @ + 1]
          /\ Finish(p, OkUnit, "none")
          /\ UNCHANGED faults
    /\ UNCHANGED << config, types, rows, clock, op, fetched, time, sessions, queries,
                    start, overlap, calls, writes >>

\* ---------------------------------- PostgreSQL: create_tables_if_needed
\* Lines 293-306: SELECT EXISTS (.. information_schema.tables ..)
Postgres_exists == table

\* Postgres_types_exist never reporting the type.
Postgres_types_exist_Unchecked == FALSE

\* Lines 313-326: SELECT EXISTS (.. pg_type WHERE typname = 'cert_status')
Postgres_types_exist == "cert_status" \in types

\* Postgres_create_tables_begin connecting whatever the configuration says.
Postgres_create_tables_begin_Ungated(p) ==
    /\ backend = "PostgreSQL"
    /\ Enter(p, "create_tables_if_needed", "", FALSE)
    /\ sessions' = [sessions EXCEPT ![p] = @ + 1]
    /\ \/ /\ Step(p, "pv_exists")
          /\ UNCHANGED faults
       \/ /\ Inject
          /\ Finish(p, Err("connect"), "connect")
    /\ UNCHANGED << config, store, clock, fetched, time, queries, ddl, created, writes >>

\* Lines 285-290: the configuration gate, then get_client()?.
Postgres_create_tables_begin(p) ==
    /\ backend = "PostgreSQL"
    /\ Enter(p, "create_tables_if_needed", "", FALSE)
    /\ \/ /\ ~create_table
          /\ Finish(p, OkUnit, "none")
          /\ UNCHANGED << sessions, faults >>
       \/ /\ create_table
          /\ sessions' = [sessions EXCEPT ![p] = @ + 1]
          /\ Step(p, "pv_exists")
          /\ UNCHANGED faults
       \/ /\ create_table
          /\ sessions' = [sessions EXCEPT ![p] = @ + 1]
          /\ Inject
          /\ Finish(p, Err("connect"), "connect")
    /\ UNCHANGED << config, store, clock, fetched, time, queries, ddl, created, writes >>

\* Lines 293-311: the relation's existence check.
Postgres_create_tables_exists(p) ==
    /\ backend = "PostgreSQL"
    /\ pc[p] = "pv_exists"
    /\ queries' = [queries EXCEPT ![p] = @ + 1]
    /\ \/ /\ Inject
          /\ Finish(p, Err("query"), "query")
       \/ /\ Postgres_exists
          /\ Finish(p, OkUnit, "none")
          /\ UNCHANGED faults
       \/ /\ ~Postgres_exists
          /\ Step(p, "pv_types")
          /\ UNCHANGED faults
    /\ UNCHANGED << config, store, clock, op, fetched, time, sessions, ddl, start,
                    overlap, calls, created, writes >>

\* Lines 313-328: the representative type's existence check.
Postgres_create_tables_types_exist(p) ==
    /\ backend = "PostgreSQL"
    /\ pc[p] = "pv_types"
    /\ queries' = [queries EXCEPT ![p] = @ + 1]
    /\ \/ /\ Inject
          /\ Finish(p, Err("query"), "query")
       \/ /\ ~Postgres_types_exist
          /\ Step(p, "pv_create_types")
          /\ UNCHANGED faults
       \/ /\ Postgres_types_exist
          /\ Step(p, "pv_create_table")
          /\ UNCHANGED faults
    /\ UNCHANGED << config, store, clock, op, fetched, time, sessions, ddl, start,
                    overlap, calls, created, writes >>

\* Lines 329-347: both CREATE TYPE statements in one batch_execute: one simple
\* query, which the server runs as one transaction, so either both types are
\* created or neither.
Postgres_create_tables_create_types(p) ==
    /\ backend = "PostgreSQL"
    /\ pc[p] = "pv_create_types"
    /\ ddl' = [ddl EXCEPT ![p] = Append(@, "CREATE TYPE cert_status, revocation_reason_enum")]
    /\ \/ /\ Inject
          /\ Finish(p, Err("query"), "query")
          /\ UNCHANGED << types, created >>
       \/ /\ types \cap PgTypes # {}
          /\ Finish(p, Err("exists"), "exists")
          /\ UNCHANGED << types, created, faults >>
       \/ /\ types \cap PgTypes = {}
          /\ types' = types \cup PgTypes
          /\ created' = [created EXCEPT !["cert_status"] = @ + 1,
                                        !["revocation_reason_enum"] = @ + 1]
          /\ Step(p, "pv_create_table")
          /\ UNCHANGED faults
    /\ UNCHANGED << config, table, rows, clock, op, fetched, time, sessions, queries,
                    start, overlap, calls, writes >>

\* Lines 349-364: CREATE TABLE ocsp_list_certs, whose columns use both types;
\* the server refuses it when the relation exists or a type is missing.
Postgres_create_tables_create_table(p) ==
    /\ backend = "PostgreSQL"
    /\ pc[p] = "pv_create_table"
    /\ ddl' = [ddl EXCEPT ![p] = Append(@, "CREATE TABLE ocsp_list_certs")]
    /\ \/ /\ Inject
          /\ Finish(p, Err("query"), "query")
          /\ UNCHANGED << table, created >>
       \/ /\ table \/ ~(PgTypes \subseteq types)
          /\ Finish(p, Err("exists"), "exists")
          /\ UNCHANGED << table, created, faults >>
       \/ /\ ~table /\ PgTypes \subseteq types
          /\ table' = TRUE
          /\ created' = [created EXCEPT !["table"] = @ + 1]
          /\ Finish(p, OkUnit, "none")
          /\ UNCHANGED faults
    /\ UNCHANGED << config, types, rows, clock, op, fetched, time, sessions, queries,
                    start, overlap, calls, writes >>

\* ------------------------------------------------------------ environment
\* The caller takes the returned value; its frame is gone.
Return(p) ==
    /\ pc[p] = "done"
    /\ pc' = [pc EXCEPT ![p] = "idle"]
    /\ op' = [op EXCEPT ![p] = NoOp]
    /\ fetched' = [fetched EXCEPT ![p] = None]
    /\ time' = [time EXCEPT ![p] = None]
    /\ result' = [result EXCEPT ![p] = Pending]
    /\ sessions' = [sessions EXCEPT ![p] = 0]
    /\ queries' = [queries EXCEPT ![p] = 0]
    /\ ddl' = [ddl EXCEPT ![p] = << >>]
    /\ failure' = [failure EXCEPT ![p] = "none"]
    /\ start' = [start EXCEPT ![p] = NoStart]
    /\ overlap' = [overlap EXCEPT ![p] = FALSE]
    /\ UNCHANGED << config, store, clock, calls, provisioned, created, faults, writes >>

\* GeneralizedTime::now() moves on.
Tick ==
    /\ clock < MaxClock
    /\ clock' = clock + 1
    /\ UNCHANGED << config, store, pc, op, fetched, time, result, sessions, queries,
                    ddl, failure, start, overlap, calls, provisioned, created,
                    faults, writes >>

\* The certificate authority inserts, updates or deletes a row of the relation.
StoreWrite ==
    /\ table
    /\ writes < MaxWrites
    /\ writes' = writes + 1
    /\ \E s \in Serials, r \in {None} \cup { Some(c) : c \in FewRows } :
         /\ r # rows[s]
         /\ rows' = [rows EXCEPT ![s] = r]
    /\ UNCHANGED << config, table, types, clock, pc, op, fetched, time, result,
                    sessions, queries, ddl, failure, start, overlap, calls,
                    provisioned, created, faults >>

\* ---------------------------------------------------------- specifications
Frames ==
    /\ pc = [p \in Callers |-> "idle"]
    /\ op = [p \in Callers |-> NoOp]
    /\ fetched = [p \in Callers |-> None]
    /\ time = [p \in Callers |-> None]
    /\ result = [p \in Callers |-> Pending]
    /\ sessions = [p \in Callers |-> 0]
    /\ queries = [p \in Callers |-> 0]
    /\ ddl = [p \in Callers |-> << >>]
    /\ failure = [p \in Callers |-> "none"]
    /\ start = [p \in Callers |-> NoStart]
    /\ overlap = [p \in Callers |-> FALSE]
    /\ calls = [p \in Callers |-> 0]
    /\ provisioned = 0
    /\ created = [o \in {"table"} \cup PgTypes |-> 0]
    /\ faults = 0
    /\ writes = 0
    /\ clock = 0

\* create_database picks the backend; the store is a fresh database or one
\* already holding the schema and rows.
Init ==
    /\ backend \in {"MySQL", "PostgreSQL"}
    /\ create_table \in BOOLEAN
    /\ \/ /\ table = FALSE
          /\ types = {}
          /\ rows = [s \in Serials |-> None]
       \/ /\ table = TRUE
          /\ types = IF backend = "PostgreSQL" THEN PgTypes ELSE {}
          /\ rows \in [Serials -> {None} \cup { Some(c) : c \in FewRows }]
    /\ Frames

Next ==
    \/ \E p \in Callers : MySql_check_cert_connect(p)
    \/ \E p \in Callers : MySql_check_cert_query(p)
    \/ \E p \in Callers : Postgres_check_cert_connect(p)
    \/ \E p \in Callers : Postgres_check_cert_query(p)
    \/ \E p \in Callers : MySql_create_tables_begin(p)
    \/ \E p \in Callers : MySql_create_tables_show(p)
    \/ \E p \in Callers : MySql_create_tables_create(p)
    \/ \E p \in Callers : Postgres_create_tables_begin(p)
    \/ \E p \in Callers : Postgres_create_tables_exists(p)
    \/ \E p \in Callers : Postgres_create_tables_types_exist(p)
    \/ \E p \in Callers : Postgres_create_tables_create_types(p)
    \/ \E p \in Callers : Postgres_create_tables_create_table(p)
    \/ \E p \in Callers : Return(p)
    \/ StoreWrite

Spec == Init /\ [][Next]_vars

\* One caller resolving every kind of stored row.
InitResolve ==
    /\ backend \in {"MySQL", "PostgreSQL"}
    /\ create_table \in BOOLEAN
    /\ table = TRUE
    /\ types = IF backend = "PostgreSQL" THEN PgTypes ELSE {}
    /\ rows \in [Serials -> {None} \cup { Some(c) : c \in AllRows(backend) }]
    /\ Frames

NextResolve ==
    \/ MySql_check_cert_connect("c1")
    \/ MySql_check_cert_query("c1")
    \/ Postgres_check_cert_connect("c1")
    \/ Postgres_check_cert_query("c1")
    \/ Return("c1")
    \/ Tick

SpecResolve == InitResolve /\ [][NextResolve]_vars

\* ------------------------------------------------------------- properties
CheckDone(p) == pc[p] = "done" /\ op[p].name = "check_cert"
ProvDone(p) == pc[p] = "done" /\ op[p].name = "create_tables_if_needed"

\* The lookup of a completed check_cert call went through.
Looked(p) == CheckDone(p) /\ failure[p] = "none"
Stored(p) == rows[op[p].certnum]

Decision(p) == result[p].val[1]
IsRevoked(p) ==
    /\ result[p].tag = "Ok"
    /\ Decision(p).code = "Revoked"
    /\ Decision(p).revoked_info # None
RevokedTime(p) == Decision(p).revoked_info[1].revocation_time
RevokedReason(p) == Decision(p).revoked_info[1].revocation_reason

Epoch == [year |-> 1970, month |-> 1, day |-> 1, hour |-> 0, min |-> 0, sec |-> 0]

\* C1: a serial with no stored record yields a decision, not an error, on
\* both backends: Unknown when the flag is false, Revoked at 1970-01-01T00:00:00Z
\* with reason certificate hold when it is true.
C1_AbsentRecord ==
    \A p \in Callers :
        (Looked(p) /\ Stored(p) = None) =>
            /\ result[p].tag = "Ok"
            /\ ~op[p].revoked =>
                 Decision(p) = [code |-> "Unknown", revoked_info |-> None]
            /\ op[p].revoked =>
                 /\ IsRevoked(p)
                 /\ RevokedTime(p) = Epoch
                 /\ RevokedReason(p) = Some("OcspRevokeCertHold")

C1_Witness ==
    \E p \in Callers :
        /\ backend = "PostgreSQL" /\ Looked(p) /\ Stored(p) = None
        /\ op[p].revoked /\ IsRevoked(p) /\ clock = 1

ProtocolCode ==
    [r \in NamedReasons |->
        CASE r = "key_compromise" -> "OcspRevokeKeyCompromise"
          [] r = "ca_compromise" -> "OcspRevokeCaCompromise"
          [] r = "affiliation_changed" -> "OcspRevokeAffChanged"
          [] r = "superseded" -> "OcspRevokeSuperseded"
          [] r = "cessation_of_operation" -> "OcspRevokeCessOperation"
          [] r = "certificate_hold" -> "OcspRevokeCertHold"
          [] r = "privilege_withdrawn" -> "OcspRevokePrivWithdrawn"
          [] r = "aa_compromise" -> "OcspRevokeAaCompromise"]

Undisturbed(p) == failure[p] \notin {"connect", "query"}

\* C6: provisioning is idempotent: a create_tables_if_needed call that follows
\* a completed one, with none running beside it, returns no error; a call made
\* when the relation exists issues no schema statement; no schema object is
\* dropped or created a second time.
C6_Idempotent ==
    /\ \A p \in Callers :
         ProvDone(p) /\ create_table =>
            /\ (start[p].provisioned >= 1 /\ ~overlap[p] /\ Undisturbed(p)) =>
                   result[p] = OkUnit
            /\ start[p].table =>
                   /\ ddl[p] = << >>
                   /\ Undisturbed(p) => result[p] = OkUnit
            /\ start[p].table => table
            /\ start[p].types \subseteq types
    /\ \A o \in DOMAIN created : created[o] <= 1

C6_Witness ==
    \E p \in Callers :
        /\ ProvDone(p) /\ create_table
        /\ start[p].provisioned >= 1 /\ ~overlap[p]
        /\ start[p].table /\ created["table"] = 1
        /\ result[p] = OkUnit /\ ddl[p] = << >>

\* C7: with provisioning not enabled create_tables_if_needed returns success
\* at once: no session opened, no query or statement issued, schema as it was.
C7_DisabledIsNoOp ==
    \A p \in Callers :
        (op[p].name = "create_tables_if_needed" /\ ~create_table) =>
            /\ pc[p] = "done"
            /\ result[p] = OkUnit
            /\ sessions[p] = 0 /\ queries[p] = 0 /\ ddl[p] = << >>
            /\ table = start[p].table /\ types = start[p].types

C7_Witness ==
    \E p \in Callers :
        /\ backend = "PostgreSQL" /\ ProvDone(p) /\ ~create_table
        /\ ~table /\ result[p] = OkUnit /\ sessions[p] = 0

\* C8: a check_cert call makes at most one connection attempt and one lookup;
\* when either fails, also because the relation is not there yet, the call
\* is over with an error and carries no decision.
C8_FailureIsError ==
    \A p \in Callers :
        op[p].name = "check_cert" =>
            /\ sessions[p] <= 1 /\ queries[p] <= 1
            /\ failure[p] # "none" =>
                   /\ pc[p] = "done"
                   /\ result[p].tag = "Err"
                   /\ result[p].val = None
            /\ (pc[p] = "done" /\ result[p].tag = "Ok") =>
                   /\ table
                   /\ sessions[p] = 1 /\ queries[p] = 1

C8_Witness ==
    \E p \in Callers, q \in Callers :
        /\ CheckDone(p) /\ failure[p] = "query" /\ faults = 0
        /\ result[p].tag = "Err"
        /\ InProvisioning(q) /\ ~table

\* C9: on PostgreSQL a create_tables_if_needed run that nothing disturbs and
\* that runs alone succeeds from whatever an interrupted run left behind, and
\* ends with both enumerated types and the relation present.
C9_PartialStoreTolerated ==
    \A p \in Callers :
        (/\ backend = "PostgreSQL" /\ ProvDone(p) /\ create_table
         /\ ~overlap[p] /\ Undisturbed(p)) =>
            /\ result[p] = OkUnit
            /\ table
            /\ PgTypes \subseteq types

C9_Witness ==
    \E p \in Callers :
        /\ backend = "PostgreSQL" /\ ProvDone(p) /\ create_table
        /\ ~overlap[p] /\ Undisturbed(p)
        /\ start[p].types = PgTypes /\ ~start[p].table
        /\ start[p].provisioned = 1
        /\ result[p] = OkUnit /\ table
        /\ ddl[p] = << "CREATE TABLE ocsp_list_certs" >>

\* C10: create_tables_if_needed is safe to invoke concurrently: with no
\* connection or I/O failure at all, every call made with provisioning enabled
\* returns success, and each schema object is created at most once.
C10_ConcurrentProvisioning ==
    /\ \A p \in Callers :
         (ProvDone(p) /\ create_table /\ faults = 0) => result[p] = OkUnit
    /\ \A o \in DOMAIN created : created[o] <= 1

=============================================================================
